---- MODULE Spec2Model ----
(***************************************************************************)
(* dumbcas: the archive pipeline of archive.go (enumerate -> hash ->       *)
(* archive, the driver loop of archiveRun.main, the interrupted signal)    *)
(* and the mock nodes table.                                               *)
(*                                                                         *)
(* Strings are sequences of one-character strings, so that path.Base,      *)
(* slicing, strings.Split and the formatting of node names are computed    *)
(* on characters as the Go code computes them.                             *)
(***************************************************************************)
EXTENDS Integers, Sequences, FiniteSets, TLC

(* ------------------------------------------------------------------ *)
(* Bounds of the model                                                 *)
(* ------------------------------------------------------------------ *)
\* Number of archive runs (process invocations) explored in a row.
MaxRuns == 2
\* The wall clock takes the values 0..MaxTime (seconds).
MaxTime == 1
\* Number of direct nodes-table AddEntry calls explored by NodesSpec.
MaxCalls == 3
\* Number of I/O operations that fail in a behaviour (cache load, hashing
\* a file, opening it, cas.AddEntry, marshalling or storing the manifest).
MaxFaults == 1
\* archiveData calls before the HTTP requests
MaxArchives == 2
\* Arguments after the command name on a command line
MaxArgs == 2

(* ------------------------------------------------------------------ *)
(* Program constants                                                   *)
(* ------------------------------------------------------------------ *)
\* make(chan inputItem, 128000)
ScanCap == 128000
\* make(chan itemToArchive, 4096)
HashedCap == 4096

(* ------------------------------------------------------------------ *)
(* Strings                                                             *)
(* ------------------------------------------------------------------ *)
Sep == "/"

HasPrefix(s, p) == Len(p) <= Len(s) /\ SubSeq(s, 1, Len(p)) = p

HasSuffix(s, p) == Len(p) <= Len(s) /\ SubSeq(s, Len(s) - Len(p) + 1, Len(s)) = p

\* s[n:] of Go: the string without its first n characters.
SliceFrom(s, n) == SubSeq(s, n + 1, Len(s))

\* Length of s once its trailing separators are removed.
TrimmedLen(s) ==
    IF \A i \in 1..Len(s) : s[i] = Sep THEN 0
    ELSE CHOOSE n \in 1..Len(s) : s[n] # Sep /\ \A i \in (n+1)..Len(s) : s[i] = Sep

\* path.Base: the last element of the path, trailing slashes removed.
Base(s) ==
    IF s = <<>> THEN <<".">>
    ELSE IF TrimmedLen(s) = 0 THEN <<Sep>>
    ELSE LET t == SubSeq(s, 1, TrimmedLen(s))
             slashes == {i \in 1..Len(t) : t[i] = Sep}
             last == IF slashes = {} THEN 0
                     ELSE CHOOSE i \in slashes : \A j \in slashes : j <= i
         IN SliceFrom(t, last)

\* strings.Split(s, "/"): the pieces between separators, empty pieces kept.
RECURSIVE Split(_)
Split(s) ==
    LET slashes == {i \in 1..Len(s) : s[i] = Sep}
    IN IF slashes = {} THEN <<s>>
       ELSE LET first == CHOOSE i \in slashes : \A j \in slashes : i <= j
            IN <<SubSeq(s, 1, first - 1)>> \o Split(SliceFrom(s, first))

(* ------------------------------------------------------------------ *)
(* The file system the runs read                                       *)
(* ------------------------------------------------------------------ *)
PathPA == <<"/", "p", "/", "a">>
PathPB == <<"/", "p", "/", "b">>
PathQA == <<"/", "q", "/", "a">>
PathD  == <<"/", "d">>
PathDA == <<"/", "d", "/", "a">>
PathDB == <<"/", "d", "/", "s", "/", "b">>
PathDS == <<"/", "d", "/", "s">>
PathE  == <<"/", "e">>
PathG  == <<"/", "g">>
PathX  == <<"/", "x">>
\* The <.toArchive> list file itself (absolute, cleaned).
ToArchive == <<"/", "l">>

Dirs == {PathD, PathE, PathG}
Files == {PathPA, PathPB, PathQA, PathDA, PathDB, ToArchive}

\* Blob contents are one-element tuples; a serialized manifest is a pair.
Content1 == <<"content1">>
Content2 == <<"content2">>
ContentL == <<"list">>
Content3 == <<"content3">>

SizeOf(bytes) == IF bytes = ContentL THEN 1 ELSE 2

\* State of the files before the first run; mtimes are positive Unix seconds.
InitFs ==
    [p \in Files |->
        [content |-> CASE p = PathPA -> Content1
                       [] p = PathPB -> Content1
                       [] p = PathQA -> Content2
                       [] p = PathDA -> Content2
                       [] p = PathDB -> Content1
                       [] OTHER -> ContentL,
         mtime |-> 1]]

\* The lists of inputs read from <.toArchive> (before the file itself is
\* appended): empty, two files of equal content, two files of equal
\* basename, a directory tree, a tree that fails to open, a missing path.
InputLists ==
    { <<>>,
      <<PathPA, PathPB>>,
      <<PathPA, PathQA>>,
      <<PathD>>,
      <<PathE, PathPA>>,
      <<PathX, PathPA>>,
      <<PathG>> }

\* EnumerateTree(input): the items the tree walk delivers on its channel, in
\* order: a file, a sub-directory, a file below it; an entry that could not
\* be read; nothing for an empty directory.
Walk(input) ==
    CASE input = PathD ->
            << [FullPath |-> PathDA, IsDir |-> FALSE, Error |-> FALSE],
               [FullPath |-> PathDS, IsDir |-> TRUE,  Error |-> FALSE],
               [FullPath |-> PathDB, IsDir |-> FALSE, Error |-> FALSE] >>
      [] input = PathE ->
            << [FullPath |-> PathE, IsDir |-> TRUE, Error |-> TRUE] >>
      [] OTHER -> <<>>

\* The regular files below a directory input.
TreeFiles(input) ==
    {Walk(input)[i].FullPath : i \in {j \in 1..Len(Walk(input)) :
        ~Walk(input)[j].IsDir /\ ~Walk(input)[j].Error}}

(* ------------------------------------------------------------------ *)
(* Digests, blobs, cache records, manifests                            *)
(* ------------------------------------------------------------------ *)
\* The "" digest: the zero value of a cache record's Sha1 and the sentinel
\* stage C sends when the manifest could not be stored.
EmptyDigest == <<>>

\* sha1 of a byte sequence, as an injective tag of the bytes.
Sha1(bytes) == <<"sha1", bytes>>

\* The zero-valued EntryCache FindInCache inserts for an unknown path.
ZeroCache == [Sha1 |-> EmptyDigest, Size |-> 0, Timestamp |-> 0, LastTested |-> 0]

EmptyCache == [p \in Files |-> ZeroCache]

\* FindInCache(cache, path): the record of the path (zero-valued if new).
FindInCache(c, path) == c[path]

\* The Entry tree under construction: the (digest, size) set at the end of
\* each path of components; inner entries are the proper prefixes.
EmptyEntry == <<>>

\* json.Marshal(entryRoot): the bytes of the manifest.
MarshalEntry(root) ==
    <<"json", {<<p, root[p].Sha1, root[p].Size>> : p \in DOMAIN root}>>

\* The leaves (path, digest, size) of the manifest stored under a digest.
LeavesOf(digest) == digest[2][2]

IsManifestDigest(d) == Len(d) = 2 /\ Len(d[2]) = 2

(* ------------------------------------------------------------------ *)
(* State                                                               *)
(* ------------------------------------------------------------------ *)
VARIABLES
    fs,           \* the files: path -> [content, mtime]
    cas,          \* CAS table: digest -> bytes
    cacheFile,    \* the persisted hash cache: path -> EntryCache
    entries,      \* mockNodesTable.entries: relpath -> Node
    now,          \* time.Now().Unix()
    run,          \* number of the current archive run
    inputs,       \* cleaned inputs of the run, <.toArchive> appended
    interrupted,  \* InterruptedChannel is closed
    stats,        \* Stats
    pcA, idxA, pendA,      \* enumerateInputs goroutine
    chScan, closedScan,    \* items_to_scan
    pcB, cache, pendB,     \* hashInputs goroutine
    chHashed, closedHashed,\* items_hashed
    pcC, entryRoot, curC, pendC, \* archiveInputs goroutine
    closedEntry,           \* entry (unbuffered)
    pcD, result,           \* archiveRun.main loop and its return value
    hist,                  \* history of the run, read by the properties only
    calls,                 \* history of the nodes-table AddEntry calls
    enumerated,            \* relpaths the last Enumerate() delivered
    resp,                  \* the last HTTP request and the response to it
    upd,                   \* the last direct updateFile call and its result
    cmd                    \* the last command line and what Run did with it

persistVars == <<fs, cas, cacheFile, entries, now>>
aVars == <<pcA, idxA, pendA>>
bVars == <<pcB, cache, pendB>>
cVars == <<pcC, entryRoot, curC, pendC>>
dVars == <<pcD, result>>
vars == <<fs, cas, cacheFile, entries, now, run, inputs, interrupted, stats,
          pcA, idxA, pendA, chScan, closedScan, pcB, cache, pendB,
          chHashed, closedHashed, pcC, entryRoot, curC, pendC, closedEntry,
          pcD, result, hist, calls, enumerated, resp, upd, cmd>>
nodeHist == <<calls, enumerated>>
callVars == <<resp, upd, cmd>>

ZeroStats ==
    [errors |-> 0, found |-> 0, totalSize |-> 0,
     nbHashed |-> 0, bytesHashed |-> 0, nbNotHashed |-> 0, bytesNotHashed |-> 0,
     nbArchived |-> 0, bytesArchived |-> 0, nbNotArchived |-> 0, bytesNotArchived |-> 0]

NoItem == <<>>

\* No request, updateFile call or command line has been observed yet.
NoCall == <<>>

\* History of one run.
ZeroHist ==
    [emittedA |-> <<>>,        \* fullPath of every item stage A sent
     reacted |-> {},           \* who took its InterruptedChannel branch
     received |-> <<>>,        \* values the driver received from stage C
     recvC |-> 0,              \* items stage C received
     droppedB |-> {},          \* positions, in emittedA, of the items stage
                               \* B dropped because hashing them failed
     archLog |-> <<>>,         \* one record per archiveItem call
     nodeAdds |-> 0,           \* nodes.AddEntry calls of the driver
     intrAtAdd |-> FALSE,      \* interrupted was set when the node was added
     errorsAtReturn |-> 0,     \* s.errors when the driver returned
     reactedAtReturn |-> {},   \* reacted when the driver returned
     loadFailed |-> FALSE,     \* LoadCache failed
     closes |-> [scan |-> 0, hashed |-> 0, entry |-> 0, cache |-> 0],
                               \* close(c) calls per channel, cache.Close()
     faults |-> 0,             \* I/O operations that failed so far
     touched |-> FALSE,        \* a file was modified after the driver returned
     prevOk |-> FALSE,         \* the previous run succeeded without errors,
                               \* persisted its cache, and no file changed since
     casAtStart |-> {},        \* digests in the CAS when the run started
     nodesAtStart |-> {}]      \* relpaths in the nodes table at the start

\* One more close of a channel, or of the cache.
Closed(h, what) == [h EXCEPT !.closes[what] = @ + 1]

(* ------------------------------------------------------------------ *)
(* Initial state: empty tables, first run about to start               *)
(* ------------------------------------------------------------------ *)
\* archiveRun.main up to the start of the three goroutines: the file itself
\* is appended to the inputs it lists.
ReadInputs(list) == Append(list, ToArchive)

Init ==
    /\ fs = InitFs
    /\ cas = <<>>
    /\ cacheFile = EmptyCache
    /\ entries = <<>>
    /\ now = 0
    /\ run = 1
    /\ inputs \in {ReadInputs(l) : l \in InputLists}
    /\ interrupted = FALSE
    /\ stats = ZeroStats
    /\ pcA = "loop" /\ idxA = 1 /\ pendA = NoItem
    /\ chScan = <<>> /\ closedScan = FALSE
    /\ pcB = "load" /\ cache = EmptyCache /\ pendB = NoItem
    /\ chHashed = <<>> /\ closedHashed = FALSE
    /\ pcC = "select" /\ entryRoot = EmptyEntry /\ curC = NoItem
    /\ pendC = EmptyDigest
    /\ closedEntry = FALSE
    /\ pcD = "select" /\ result = "running"
    /\ hist = ZeroHist
    /\ calls = <<>>
    /\ enumerated = [after |-> 0, paths |-> {}]
    /\ resp = NoCall /\ upd = NoCall /\ cmd = NoCall

(* ------------------------------------------------------------------ *)
(* Stage A: Stats.enumerateInputs                                      *)
(* ------------------------------------------------------------------ *)
\* relPath of an item found below a directory input.
TreeRelPath(input, fullPath) == SliceFrom(fullPath, Len(input) + 1)

\* relPath of an input that is a file.
FileRelPath(input) == Base(input)

InputItem(fullPath, relPath) ==
    [fullPath |-> fullPath, relPath |-> relPath,
     size |-> SizeOf(fs[fullPath].content), mtime |-> fs[fullPath].mtime]

\* os.Stat of the next input: an error is counted and the input skipped; a
\* directory goes to the select on its tree; a file is counted and sent.
A_Stat ==
    /\ pcA = "loop" /\ idxA <= Len(inputs)
    /\ LET input == inputs[idxA] IN
        IF input \notin Files \cup Dirs
        THEN /\ stats' = [stats EXCEPT !.errors = @ + 1]
             /\ idxA' = idxA + 1
             /\ UNCHANGED <<pcA, pendA>>
        ELSE IF input \in Dirs
        THEN /\ pcA' = "select"
             /\ UNCHANGED <<stats, idxA, pendA>>
        ELSE /\ stats' = [stats EXCEPT !.found = @ + 1,
                                        !.totalSize = @ + SizeOf(fs[input].content)]
             /\ pendA' = InputItem(input, FileRelPath(input))
             /\ pcA' = "send"
             /\ UNCHANGED idxA
    /\ UNCHANGED <<callVars, nodeHist, persistVars, run, inputs, interrupted, chScan, closedScan,
                   bVars, chHashed, closedHashed, cVars, closedEntry, dVars, hist>>

\* The interrupt branch that returns without close(c).
A_InterruptedNoClose ==
    /\ pcA = "select" /\ interrupted
    /\ stats' = [stats EXCEPT !.errors = @ + 1]
    /\ pcA' = "done"
    /\ hist' = [hist EXCEPT !.reacted = @ \cup {"A"}]
    /\ UNCHANGED <<callVars, nodeHist, persistVars, run, inputs, interrupted, idxA, pendA, chScan,
                   closedScan, bVars, chHashed, closedHashed, cVars, closedEntry, dVars>>

\* case <-InterruptedChannel of the select on the directory tree.
A_Interrupted ==
    /\ pcA = "select" /\ interrupted
    /\ stats' = [stats EXCEPT !.errors = @ + 1]
    /\ closedScan' = TRUE
    /\ pcA' = "done"
    /\ hist' = Closed([hist EXCEPT !.reacted = @ \cup {"A"}], "scan")
    /\ UNCHANGED <<callVars, nodeHist, persistVars, run, inputs, interrupted, idxA, pendA, chScan,
                   bVars, chHashed, closedHashed, cVars, closedEntry, dVars>>

\* case item, ok := <-d of the select: one receive from the tree walk.
A_TreeItem ==
    /\ pcA = "select"
    /\ LET input == inputs[idxA]
           walk == Walk(input)
       IN IF walk = <<>>
          THEN \* !ok: move on to the next input
               /\ idxA' = idxA + 1 /\ pcA' = "loop"
               /\ UNCHANGED <<stats, pendA>>
          ELSE LET item == walk[1] IN
               IF item.Error
               THEN /\ stats' = [stats EXCEPT !.errors = @ + 1]
                    /\ idxA' = idxA + 1 /\ pcA' = "loop"
                    /\ UNCHANGED pendA
               ELSE IF ~item.IsDir
               THEN /\ stats' = [stats EXCEPT !.found = @ + 1]
                    /\ pendA' = InputItem(item.FullPath,
                                          TreeRelPath(input, item.FullPath))
                    /\ pcA' = "send"
                    /\ UNCHANGED idxA
               ELSE /\ idxA' = idxA + 1 /\ pcA' = "loop"
                    /\ UNCHANGED <<stats, pendA>>
    /\ UNCHANGED <<callVars, nodeHist, persistVars, run, inputs, interrupted, chScan, closedScan,
                   bVars, chHashed, closedHashed, cVars, closedEntry, dVars, hist>>

\* c <- inputItem{...}: blocks while the buffer is full.
A_Send ==
    /\ pcA = "send" /\ Len(chScan) < ScanCap
    /\ chScan' = Append(chScan, pendA)
    /\ pendA' = NoItem
    /\ idxA' = idxA + 1
    /\ pcA' = "loop"
    /\ hist' = [hist EXCEPT !.emittedA = Append(@, pendA.fullPath)]
    /\ UNCHANGED <<callVars, nodeHist, persistVars, run, inputs, interrupted, stats, closedScan,
                   bVars, chHashed, closedHashed, cVars, closedEntry, dVars>>

\* End of the range loop: close(c).
A_Close ==
    /\ pcA = "loop" /\ idxA > Len(inputs)
    /\ closedScan' = TRUE
    /\ hist' = Closed(hist, "scan")
    /\ pcA' = "done"
    /\ UNCHANGED <<callVars, nodeHist, persistVars, run, inputs, interrupted, stats, idxA, pendA,
                   chScan, bVars, chHashed, closedHashed, cVars, closedEntry,
                   dVars>>

(* ------------------------------------------------------------------ *)
(* Stage B: Stats.hashInputs                                           *)
(* ------------------------------------------------------------------ *)
\* updateFile without the size and timestamp test: every file is hashed.
UpdateFileAlwaysHash(rec, item, t, readOk, bytes) ==
    IF ~readOk
    THEN [rec |-> rec, hashed |-> FALSE, err |-> TRUE, read |-> TRUE]
    ELSE [rec |-> [Sha1 |-> Sha1(bytes), Size |-> item.size,
                   Timestamp |-> item.mtime, LastTested |-> t],
          hashed |-> TRUE, err |-> FALSE, read |-> TRUE]

\* updateFile that compares the size only.
UpdateFileSizeOnly(rec, item, t, readOk, bytes) ==
    IF rec.Size = item.size
    THEN [rec |-> [rec EXCEPT !.LastTested = t], hashed |-> FALSE,
          err |-> FALSE, read |-> FALSE]
    ELSE IF ~readOk
    THEN [rec |-> rec, hashed |-> FALSE, err |-> TRUE, read |-> TRUE]
    ELSE [rec |-> [Sha1 |-> Sha1(bytes), Size |-> item.size,
                   Timestamp |-> item.mtime, LastTested |-> t],
          hashed |-> TRUE, err |-> FALSE, read |-> TRUE]

\* updateFile(cache, item): the refreshed record, whether the file was
\* hashed, whether sha1FilePath failed and whether it was called at all
\* (read). readOk and bytes are what reading the file gives at this moment.
UpdateFile(rec, item, t, readOk, bytes) ==
    IF rec.Size = item.size /\ rec.Timestamp = item.mtime
    THEN [rec |-> [rec EXCEPT !.LastTested = t], hashed |-> FALSE,
          err |-> FALSE, read |-> FALSE]
    ELSE IF ~readOk
    THEN [rec |-> rec, hashed |-> FALSE, err |-> TRUE, read |-> TRUE]
    ELSE [rec |-> [Sha1 |-> Sha1(bytes), Size |-> item.size,
                   Timestamp |-> item.mtime, LastTested |-> t],
          hashed |-> TRUE, err |-> FALSE, read |-> TRUE]

\* The states of the file updateFile is called on directly.
FileItems ==
    [fullPath : {PathPA}, relPath : {Base(PathPA)}, size : 0..2,
     mtime : 0..MaxTime]

\* One call of updateFile at time now, on the record of the file as the
\* call before left it (the zero record FindInCache makes at first).
U_UpdateFile ==
    /\ \E item \in FileItems, readOk \in BOOLEAN, bytes \in {Content1, Content3} :
         LET rec == IF upd = NoCall THEN ZeroCache ELSE upd.out.rec IN
         upd' = [rec |-> rec, item |-> item, t |-> now, readOk |-> readOk,
                 bytes |-> bytes,
                 out |-> UpdateFile(rec, item, now, readOk, bytes)]
    /\ UNCHANGED <<resp, cmd, nodeHist, persistVars, run, inputs, interrupted,
                   stats, aVars, chScan, closedScan, bVars, chHashed,
                   closedHashed, cVars, closedEntry, dVars, hist>>

\* The outcomes an I/O operation can have: it fails only while the run has
\* not used up its failures.
Outcomes(h, failures) == IF h.faults < MaxFaults THEN {"ok"} \cup failures ELSE {"ok"}

Faulted(h, outcome) == IF outcome = "ok" THEN h ELSE [h EXCEPT !.faults = @ + 1]

\* a.LoadCache(): a valid cache even when loading fails.
B_LoadCache ==
    /\ pcB = "load"
    /\ \E o \in Outcomes(hist, {"fail"}) :
        /\ cache' = IF o = "ok" THEN cacheFile ELSE EmptyCache
        /\ hist' = Faulted([hist EXCEPT !.loadFailed = (o # "ok")], o)
    /\ pcB' = "select"
    /\ UNCHANGED <<callVars, nodeHist, persistVars, run, inputs, interrupted, stats, aVars, chScan,
                   closedScan, pendB, chHashed, closedHashed, cVars,
                   closedEntry, dVars>>

\* case <-InterruptedChannel.
B_Interrupted ==
    /\ pcB = "select" /\ interrupted
    /\ stats' = [stats EXCEPT !.errors = @ + 1]
    /\ closedHashed' = TRUE
    /\ pcB' = "closeCache"
    /\ hist' = Closed([hist EXCEPT !.reacted = @ \cup {"B"}], "hashed")
    /\ UNCHANGED <<callVars, nodeHist, persistVars, run, inputs, interrupted, aVars, chScan,
                   closedScan, cache, pendB, chHashed, cVars, closedEntry, dVars>>

\* hashInputs that gives up at the first file it cannot hash: return where
\* the code has continue.
B_ItemReturnsOnError ==
    /\ pcB = "select" /\ chScan # <<>>
    /\ LET item == Head(chScan) IN
       \E o \in Outcomes(hist, {"fail"}) :
         LET u == UpdateFile(FindInCache(cache, item.fullPath), item, now,
                             o = "ok", fs[item.fullPath].content)
         IN /\ chScan' = Tail(chScan)
            /\ (o = "ok" \/ u.err)
            /\ hist' = Faulted(IF u.err
                                THEN Closed([hist EXCEPT !.droppedB = @ \cup
                                        {Len(hist.emittedA) - Len(chScan) + 1}],
                                            "hashed")
                                ELSE hist, o)
            /\ cache' = [cache EXCEPT ![item.fullPath] = u.rec]
            /\ IF u.err
               THEN /\ stats' = [stats EXCEPT !.errors = @ + 1]
                    /\ closedHashed' = TRUE
                    /\ pcB' = "closeCache"
                    /\ UNCHANGED pendB
               ELSE /\ stats' = IF u.hashed
                                THEN [stats EXCEPT !.nbHashed = @ + 1,
                                                   !.bytesHashed = @ + item.size]
                                ELSE [stats EXCEPT !.nbNotHashed = @ + 1,
                                                   !.bytesNotHashed = @ + item.size]
                    /\ pendB' = [fullPath |-> item.fullPath,
                                 relPath |-> item.relPath,
                                 sha1 |-> u.rec.Sha1, size |-> item.size]
                    /\ pcB' = "send"
                    /\ UNCHANGED closedHashed
    /\ UNCHANGED <<callVars, nodeHist, persistVars, run, inputs, interrupted, aVars,
                   closedScan, chHashed, cVars, closedEntry, dVars>>

\* case item, ok := <-inputs with ok: refresh the hash of the item.
B_Item ==
    /\ pcB = "select" /\ chScan # <<>>
    /\ LET item == Head(chScan) IN
       \E o \in Outcomes(hist, {"fail"}) :
         LET u == UpdateFile(FindInCache(cache, item.fullPath), item, now,
                             o = "ok", fs[item.fullPath].content)
         IN /\ chScan' = Tail(chScan)
            /\ (o = "ok" \/ u.err)
            /\ hist' = Faulted(IF u.err
                                THEN [hist EXCEPT !.droppedB = @ \cup
                                        {Len(hist.emittedA) - Len(chScan) + 1}]
                                ELSE hist, o)
            /\ cache' = [cache EXCEPT ![item.fullPath] = u.rec]
            /\ IF u.err
               THEN /\ stats' = [stats EXCEPT !.errors = @ + 1]
                    /\ UNCHANGED <<pcB, pendB>>
               ELSE /\ stats' = IF u.hashed
                                THEN [stats EXCEPT !.nbHashed = @ + 1,
                                                   !.bytesHashed = @ + item.size]
                                ELSE [stats EXCEPT !.nbNotHashed = @ + 1,
                                                   !.bytesNotHashed = @ + item.size]
                    /\ pendB' = [fullPath |-> item.fullPath,
                                 relPath |-> item.relPath,
                                 sha1 |-> u.rec.Sha1, size |-> item.size]
                    /\ pcB' = "send"
    /\ UNCHANGED <<callVars, nodeHist, persistVars, run, inputs, interrupted, aVars,
                   closedScan, chHashed, closedHashed, cVars, closedEntry, dVars>>

\* case item, ok := <-inputs with !ok: the input is closed and drained.
B_Done ==
    /\ pcB = "select" /\ chScan = <<>> /\ closedScan
    /\ closedHashed' = TRUE
    /\ hist' = Closed(hist, "hashed")
    /\ pcB' = "closeCache"
    /\ UNCHANGED <<callVars, nodeHist, persistVars, run, inputs, interrupted, stats, aVars, chScan,
                   closedScan, cache, pendB, chHashed, cVars, closedEntry,
                   dVars>>

\* A send that puts the item in front of the ones still in the channel.
B_SendInFront ==
    /\ pcB = "send" /\ Len(chHashed) < HashedCap
    /\ chHashed' = <<pendB>> \o chHashed
    /\ pendB' = NoItem
    /\ pcB' = "select"
    /\ UNCHANGED <<callVars, nodeHist, persistVars, run, inputs, interrupted, stats, aVars, chScan,
                   closedScan, cache, closedHashed, cVars, closedEntry, dVars,
                   hist>>

\* c <- itemToArchive{...}.
B_Send ==
    /\ pcB = "send" /\ Len(chHashed) < HashedCap
    /\ chHashed' = Append(chHashed, pendB)
    /\ pendB' = NoItem
    /\ pcB' = "select"
    /\ UNCHANGED <<callVars, nodeHist, persistVars, run, inputs, interrupted, stats, aVars, chScan,
                   closedScan, cache, closedHashed, cVars, closedEntry, dVars,
                   hist>>

\* defer cache.Close(): runs when the goroutine returns, after close(c).
B_CloseCache ==
    /\ pcB = "closeCache"
    /\ cacheFile' = cache
    /\ hist' = Closed(hist, "cache")
    /\ pcB' = "done"
    /\ UNCHANGED <<callVars, nodeHist, fs, cas, entries, now, run, inputs, interrupted, stats,
                   aVars, chScan, closedScan, cache, pendB, chHashed,
                   closedHashed, cVars, closedEntry, dVars>>

(* ------------------------------------------------------------------ *)
(* Tables                                                              *)
(* ------------------------------------------------------------------ *)
\* m[k] = v on a Go map.
Put(m, k, v) == [x \in DOMAIN m \cup {k} |-> IF x = k THEN v ELSE m[x]]

\* CasTable.AddEntry(reader, digest): ok, already-exists or an I/O error;
\* the digest is trusted and a stored blob is never rewritten.
CasAddEntry(c, bytes, digest, ioOk) ==
    IF ~ioOk THEN [cas |-> c, res |-> "error"]
    ELSE IF digest \in DOMAIN c THEN [cas |-> c, res |-> "exists"]
    ELSE [cas |-> Put(c, digest, bytes), res |-> "ok"]

\* AddBytes(cas, data): the digest of the data, and AddEntry under it.
AddBytes(c, data, ioOk) ==
    [digest |-> Sha1(data), add |-> CasAddEntry(c, data, Sha1(data), ioOk)]

Digits == <<"0", "1", "2", "3", "4", "5", "6", "7", "8", "9">>

\* fmt.Sprintf("%d", n) for n >= 0.
RECURSIVE Itoa(_)
Itoa(n) == IF n < 10 THEN <<Digits[n + 1]>>
           ELSE Itoa(n \div 10) \o <<Digits[(n % 10) + 1]>>

\* now.Format("2006-01"): two seconds of the model clock make a month.
MonthName(t) == <<"m">> \o Itoa(t \div 2)

\* now.Format("2006-01-02_15-04-05").
StampName(t) == MonthName(t) \o <<"-", "s">> \o Itoa(t)

TagsName == <<"t", "a", "g", "s">>

\* monthName + "/" + nodeName for one value of suffix.
NodePath(t, name, suffix) ==
    MonthName(t) \o <<Sep>> \o StampName(t) \o <<"_">> \o name
        \o (IF suffix # 0 THEN <<"(">> \o Itoa(suffix) \o <<")">> ELSE <<>>)

TagPath(name) == TagsName \o <<Sep>> \o name

\* AddEntry without the loop: the first candidate is taken as it is.
FreeSuffixZero(m, t, name) == 0

\* The suffix at which the "try ad nauseam" loop of AddEntry stops.
FreeSuffix(m, t, name) ==
    CHOOSE n \in 0..Cardinality(DOMAIN m) :
        /\ NodePath(t, name, n) \notin DOMAIN m
        /\ \A k \in 0..(n - 1) : NodePath(t, name, k) \in DOMAIN m

\* AddEntry that keeps a tag that already exists instead of overwriting it.
MockAddEntryKeepTag(m, node, name, t) ==
    LET m1 == Put(m, NodePath(t, name, FreeSuffix(m, t, name)), node)
    IN IF TagPath(name) \in DOMAIN m1 THEN m1 ELSE Put(m1, TagPath(name), node)

\* mockNodesTable.AddEntry(node, name) at time t.
MockAddEntry(m, node, name, t) ==
    Put(Put(m, NodePath(t, name, FreeSuffix(m, t, name)), node),
        TagPath(name), node)

\* The call as the history records it.
CallRecord(m, node, name, t) ==
    [t |-> t, name |-> name, node |-> node,
     path |-> NodePath(t, name, FreeSuffix(m, t, name)),
     before |-> DOMAIN m]

IsTagPath(k) == HasPrefix(k, TagsName \o <<Sep>>)

(* ------------------------------------------------------------------ *)
(* Stage C: Stats.archiveInputs                                        *)
(* ------------------------------------------------------------------ *)
\* makeEntry(root, item): the entry at the end of the components of relPath
\* gets the digest and the size of the item.
MakeEntry(root, item) ==
    Put(root, Split(item.relPath), [Sha1 |-> item.sha1, Size |-> item.size])

\* archiveItem without the os.IsExist test: already-exists is an error.
ArchiveItemNoExist(s, c, item, bytes, openOk, ioOk) ==
    IF ~openOk
    THEN [stats |-> [s EXCEPT !.errors = @ + 1], cas |-> c, res |-> "error"]
    ELSE LET a == CasAddEntry(c, bytes, item.sha1, ioOk) IN
         IF a.res = "ok"
         THEN [stats |-> [s EXCEPT !.nbArchived = @ + 1,
                                   !.bytesArchived = @ + item.size],
               cas |-> a.cas, res |-> "archived"]
         ELSE [stats |-> [s EXCEPT !.errors = @ + 1], cas |-> a.cas,
               res |-> "error"]

\* archiveItem that counts nothing when the CAS already has the blob.
ArchiveItemSkipsUncounted(s, c, item, bytes, openOk, ioOk) ==
    IF ~openOk
    THEN [stats |-> [s EXCEPT !.errors = @ + 1], cas |-> c, res |-> "error"]
    ELSE LET a == CasAddEntry(c, bytes, item.sha1, ioOk) IN
         IF a.res = "exists"
         THEN [stats |-> s, cas |-> a.cas, res |-> "skipped"]
         ELSE IF a.res = "ok"
         THEN [stats |-> [s EXCEPT !.nbArchived = @ + 1,
                                   !.bytesArchived = @ + item.size],
               cas |-> a.cas, res |-> "archived"]
         ELSE [stats |-> [s EXCEPT !.errors = @ + 1], cas |-> a.cas,
               res |-> "error"]

\* archiveItem(item, cas): open the file, add it to the CAS, count it.
ArchiveItem(s, c, item, bytes, openOk, ioOk) ==
    IF ~openOk
    THEN [stats |-> [s EXCEPT !.errors = @ + 1], cas |-> c, res |-> "error"]
    ELSE LET a == CasAddEntry(c, bytes, item.sha1, ioOk) IN
         IF a.res = "exists"
         THEN [stats |-> [s EXCEPT !.nbNotArchived = @ + 1,
                                   !.bytesNotArchived = @ + item.size],
               cas |-> a.cas, res |-> "skipped"]
         ELSE IF a.res = "ok"
         THEN [stats |-> [s EXCEPT !.nbArchived = @ + 1,
                                   !.bytesArchived = @ + item.size],
               cas |-> a.cas, res |-> "archived"]
         ELSE [stats |-> [s EXCEPT !.errors = @ + 1], cas |-> a.cas,
               res |-> "error"]

\* Serializing and storing the entry file: the statistics, the CAS and the
\* value sent to the driver.
StoreEntry(s, c, root, marshalOk, ioOk) ==
    IF ~marshalOk
    THEN [stats |-> [s EXCEPT !.errors = @ + 1], cas |-> c, send |-> EmptyDigest]
    ELSE LET data == MarshalEntry(root)
             b == AddBytes(c, data, ioOk)
         IN IF b.add.res = "exists"
            THEN [stats |-> [s EXCEPT !.nbNotArchived = @ + 1,
                                      !.bytesNotArchived = @ + 1],
                  cas |-> b.add.cas, send |-> b.digest]
            ELSE IF b.add.res = "ok"
            THEN [stats |-> [s EXCEPT !.nbArchived = @ + 1,
                                      !.bytesArchived = @ + 1],
                  cas |-> b.add.cas, send |-> b.digest]
            ELSE [stats |-> [s EXCEPT !.errors = @ + 1], cas |-> b.add.cas,
                  send |-> EmptyDigest]

\* case <-InterruptedChannel.
C_Interrupted ==
    /\ pcC = "select" /\ interrupted
    /\ stats' = [stats EXCEPT !.errors = @ + 1]
    /\ closedEntry' = TRUE
    /\ pcC' = "done"
    /\ hist' = Closed([hist EXCEPT !.reacted = @ \cup {"C"}], "entry")
    /\ UNCHANGED <<callVars, nodeHist, persistVars, run, inputs, interrupted, aVars,
                   chScan, closedScan, bVars, chHashed, closedHashed,
                   entryRoot, curC, pendC, dVars>>

\* case item, ok := <-items with ok: makeEntry(entryRoot, item).
C_Item ==
    /\ pcC = "select" /\ chHashed # <<>>
    /\ curC' = Head(chHashed)
    /\ chHashed' = Tail(chHashed)
    /\ entryRoot' = MakeEntry(entryRoot, Head(chHashed))
    /\ pcC' = "archive"
    /\ hist' = [hist EXCEPT !.recvC = @ + 1]
    /\ UNCHANGED <<callVars, nodeHist, persistVars, run, inputs, interrupted, stats,
                   aVars, chScan, closedScan, bVars, closedHashed, pendC,
                   closedEntry, dVars>>

\* s.archiveItem(item, cas).
C_Archive ==
    /\ pcC = "archive"
    /\ \E o \in Outcomes(hist, {"open", "io"}) :
         LET r == ArchiveItem(stats, cas, curC, fs[curC.fullPath].content,
                              o # "open", o # "io")
         IN /\ stats' = r.stats
            /\ cas' = r.cas
            /\ hist' = Faulted([hist EXCEPT !.archLog =
                            Append(@, [path |-> curC.fullPath,
                                       sha1 |-> curC.sha1, res |-> r.res,
                                       fault |-> (o # "ok")])], o)
    /\ curC' = NoItem
    /\ pcC' = "select"
    /\ UNCHANGED <<callVars, nodeHist, fs, cacheFile, entries, now, run, inputs,
                   interrupted, aVars, chScan, closedScan, bVars, chHashed,
                   closedHashed, entryRoot, pendC, closedEntry, dVars>>

\* case item, ok := <-items with !ok: cont = false, the loop ends.
C_InputClosed ==
    /\ pcC = "select" /\ chHashed = <<>> /\ closedHashed
    /\ pcC' = "marshal"
    /\ UNCHANGED <<callVars, nodeHist, persistVars, run, inputs, interrupted, stats,
                   aVars, chScan, closedScan, bVars, chHashed, closedHashed,
                   entryRoot, curC, pendC, closedEntry, dVars, hist>>

\* json.Marshal(entryRoot) and AddBytes(cas, data); the send comes next.
C_StoreEntry ==
    /\ pcC = "marshal"
    /\ \E o \in Outcomes(hist, {"marshal", "io"}) :
         LET r == StoreEntry(stats, cas, entryRoot, o # "marshal", o # "io")
         IN /\ stats' = r.stats
            /\ cas' = r.cas
            /\ pendC' = r.send
            /\ hist' = Faulted(hist, o)
    /\ pcC' = "send"
    /\ UNCHANGED <<callVars, nodeHist, fs, cacheFile, entries, now, run, inputs,
                   interrupted, aVars, chScan, closedScan, bVars, chHashed,
                   closedHashed, entryRoot, curC, closedEntry, dVars>>

\* close(c) after the send.
C_Close ==
    /\ pcC = "close"
    /\ closedEntry' = TRUE
    /\ hist' = Closed(hist, "entry")
    /\ pcC' = "done"
    /\ UNCHANGED <<callVars, nodeHist, persistVars, run, inputs, interrupted, stats,
                   aVars, chScan, closedScan, bVars, chHashed, closedHashed,
                   entryRoot, curC, pendC, dVars>>

(* ------------------------------------------------------------------ *)
(* The driver: the select loop of archiveRun.main                      *)
(* ------------------------------------------------------------------ *)
Comment == <<"c">>

\* The driver without the item != "" test.
RegistersAlways(item) == TRUE

\* Whether the driver registers a node for the value it received.
Registers(item) == item # EmptyDigest

\* The driver that takes every value it receives for a success.
ItemResultAlwaysNil(item, e) == "nil"

\* The error the driver returns for a received value ("nil": no error).
ItemResult(item, e) ==
    IF item # EmptyDigest THEN "nil"
    ELSE IF e # 0 THEN "Got errors!" ELSE "Unexpected error."

\* The error the driver returns when entry is closed.
ClosedResult(e) == IF e # 0 THEN "Got errors!" ELSE "Was likely interrupted."

\* archiveRun.Run: the exit code for the error main returned.
ExitCode(err) == IF err # "nil" THEN 1 ELSE 0

AtReturn(h, who) ==
    [h EXCEPT !.errorsAtReturn = stats.errors,
              !.reactedAtReturn = h.reacted \cup who]

\* case <-InterruptedChannel: return fmt.Errorf("Was interrupted.").
D_Interrupted ==
    /\ pcD = "select" /\ interrupted
    /\ result' = "Was interrupted."
    /\ pcD' = "done"
    /\ hist' = AtReturn([hist EXCEPT !.reacted = @ \cup {"D"}], {"D"})
    /\ UNCHANGED <<callVars, nodeHist, persistVars, run, inputs, interrupted, stats,
                   aVars, chScan, closedScan, bVars, chHashed, closedHashed,
                   cVars, closedEntry>>

\* case item, ok := <-entry with !ok.
D_Closed ==
    /\ pcD = "select" /\ closedEntry
    /\ result' = ClosedResult(stats.errors)
    /\ pcD' = "done"
    /\ hist' = AtReturn(hist, {})
    /\ UNCHANGED <<callVars, nodeHist, persistVars, run, inputs, interrupted, stats,
                   aVars, chScan, closedScan, bVars, chHashed, closedHashed,
                   cVars, closedEntry>>

\* case item, ok := <-entry with ok: the rendezvous with the send of stage C
\* (c <- entrySha1 or c <- ""), then nodes.AddEntry or an error.
D_Item ==
    /\ pcD = "select" /\ pcC = "send"
    /\ LET item == pendC
           node == [Entry |-> item, Comment |-> Comment]
           name == Base(ToArchive)
       IN /\ IF Registers(item)
             THEN /\ entries' = MockAddEntry(entries, node, name, now)
                  /\ calls' = Append(calls, CallRecord(entries, node, name, now))
             ELSE UNCHANGED <<entries, calls>>
          /\ result' = ItemResult(item, stats.errors)
          /\ hist' = AtReturn(
                [hist EXCEPT !.received = Append(@, item),
                             !.nodeAdds = IF Registers(item) THEN @ + 1 ELSE @,
                             !.intrAtAdd = Registers(item) /\ interrupted], {})
    /\ pcC' = "close"
    /\ pendC' = EmptyDigest
    /\ pcD' = "done"
    /\ UNCHANGED <<callVars, enumerated, fs, cas, cacheFile, now, run, inputs,
                   interrupted, stats, aVars, chScan, closedScan, bVars,
                   chHashed, closedHashed, entryRoot, curC, closedEntry>>

\* case item, ok := <-entry with a digest, when nodes.AddEntry returns an
\* error (a nodes table that persists the node can fail to): err is
\* assigned and not looked at, the statistics are printed, return nil.
D_ItemAddEntryFails ==
    /\ pcD = "select" /\ pcC = "send"
    /\ Registers(pendC)
    /\ "fail" \in Outcomes(hist, {"fail"})
    /\ result' = ItemResult(pendC, stats.errors)
    /\ hist' = Faulted(AtReturn(
                  [hist EXCEPT !.received = Append(@, pendC),
                               !.nodeAdds = @ + 1,
                               !.intrAtAdd = interrupted], {}), "fail")
    /\ pcC' = "close"
    /\ pendC' = EmptyDigest
    /\ pcD' = "done"
    /\ UNCHANGED <<callVars, nodeHist, persistVars, run, inputs,
                   interrupted, stats, aVars, chScan, closedScan, bVars,
                   chHashed, closedHashed, entryRoot, curC, closedEntry>>

(* ------------------------------------------------------------------ *)
(* Environment                                                         *)
(* ------------------------------------------------------------------ *)
\* SIGINT: HandleCtrlC closes InterruptedChannel while the run is going on.
Interrupt ==
    /\ ~interrupted /\ pcD = "select"
    /\ interrupted' = TRUE
    /\ UNCHANGED <<callVars, nodeHist, persistVars, run, inputs, stats, aVars, chScan,
                   closedScan, bVars, chHashed, closedHashed, cVars,
                   closedEntry, dVars, hist>>

\* A second passes.
Tick ==
    /\ now < MaxTime
    /\ now' = now + 1
    /\ UNCHANGED <<callVars, nodeHist, fs, cas, cacheFile, entries, run, inputs,
                   interrupted, stats, aVars, chScan, closedScan, bVars,
                   chHashed, closedHashed, cVars, closedEntry, dVars, hist>>

\* Between two runs the user rewrites one of the files.
ModifyFile ==
    /\ pcD = "done" /\ run < MaxRuns /\ ~hist.touched
    /\ fs' = [fs EXCEPT ![PathPA] = [content |-> Content3, mtime |-> @.mtime + 1]]
    /\ hist' = [hist EXCEPT !.touched = TRUE]
    /\ UNCHANGED <<callVars, nodeHist, cas, cacheFile, entries, now, run, inputs,
                   interrupted, stats, aVars, chScan, closedScan, bVars,
                   chHashed, closedHashed, cVars, closedEntry, dVars>>

\* Run has returned and the process is gone; archive is started again on
\* the same list, with the tables and the cache file as they are on disk.
NextRun ==
    /\ pcD = "done" /\ run < MaxRuns
    /\ run' = run + 1
    /\ \E t \in {now, now + 1} : t <= MaxTime /\ now' = t
    /\ interrupted' = FALSE
    /\ stats' = ZeroStats
    /\ pcA' = "loop" /\ idxA' = 1 /\ pendA' = NoItem
    /\ chScan' = <<>> /\ closedScan' = FALSE
    /\ pcB' = "load" /\ cache' = EmptyCache /\ pendB' = NoItem
    /\ chHashed' = <<>> /\ closedHashed' = FALSE
    /\ pcC' = "select" /\ entryRoot' = EmptyEntry /\ curC' = NoItem
    /\ pendC' = EmptyDigest
    /\ closedEntry' = FALSE
    /\ pcD' = "select" /\ result' = "running"
    /\ hist' = [ZeroHist EXCEPT
                   !.prevOk = /\ result = "nil" /\ stats.errors = 0
                              /\ pcB = "done" /\ ~hist.touched,
                   !.faults = hist.faults,
                   !.casAtStart = DOMAIN cas,
                   !.nodesAtStart = DOMAIN entries]
    /\ UNCHANGED <<callVars, nodeHist, fs, cas, cacheFile, entries, inputs>>

(* ------------------------------------------------------------------ *)
(* The nodes table called directly, as testNodesTableImpl does         *)
(* ------------------------------------------------------------------ *)
NodeNames == { <<"a">>, <<"a", "(", "1", ")">>, <<"b">> }

NodeValues == { [Entry |-> Sha1(Content1), Comment |-> Comment],
                [Entry |-> Sha1(Content2), Comment |-> Comment] }

\* mockNodesTable.Enumerate(): the relpaths sent on the channel.
Enumerate(m) == DOMAIN m

N_AddEntry ==
    /\ Len(calls) < MaxCalls
    /\ \E name \in NodeNames, node \in NodeValues :
        /\ entries' = MockAddEntry(entries, node, name, now)
        /\ calls' = Append(calls, CallRecord(entries, node, name, now))
    /\ UNCHANGED <<callVars, enumerated, fs, cas, cacheFile, now, run, inputs,
                   interrupted, stats, aVars, chScan, closedScan, bVars,
                   chHashed, closedHashed, cVars, closedEntry, dVars, hist>>

N_Enumerate ==
    /\ enumerated' = [after |-> Len(calls), paths |-> Enumerate(entries)]
    /\ UNCHANGED <<callVars, calls, persistVars, run, inputs, interrupted, stats, aVars,
                   chScan, closedScan, bVars, chHashed, closedHashed, cVars,
                   closedEntry, dVars, hist>>

(* ------------------------------------------------------------------ *)
(* HTTP: mockNodesTable.ServeHTTP and the entry file system            *)
(* ------------------------------------------------------------------ *)
\* The names archiveData archives: file1, dir1/dir2/file2; file3 is the
\* name the test asks for that is in no manifest.
File1 == <<"f">>
File2Path == <<"d", "/", "e", "/", "g">>

\* The Entry tree of archiveData, built with makeEntry, whose file1 and
\* file2 hold the given contents.
DataTree(b1, b2) ==
    MakeEntry(MakeEntry(EmptyEntry,
                        [relPath |-> File1, sha1 |-> Sha1(b1), size |-> SizeOf(b1)]),
              [relPath |-> File2Path, sha1 |-> Sha1(b2), size |-> SizeOf(b2)])

UsefulComment == <<"u">>

\* archiveData(t, cas, nodes): the two blobs and the manifest go to the CAS
\* and the node is added under the basename.
ArchiveData(c, m, b1, b2, name, t) ==
    LET c1 == AddBytes(c, b1, TRUE).add.cas
        c2 == AddBytes(c1, b2, TRUE).add.cas
        e  == AddBytes(c2, MarshalEntry(DataTree(b1, b2)), TRUE)
        node == [Entry |-> e.digest, Comment |-> UsefulComment]
    IN [cas |-> e.add.cas, node |-> node,
        entries |-> MockAddEntry(m, node, name, t)]

\* LoadEntry(cas, digest): the tree decoded from the blob, or an error when
\* the blob is missing or is no manifest.
LoadEntry(c, digest) ==
    IF digest \in DOMAIN c /\ Len(c[digest]) = 2
    THEN [err |-> FALSE,
          entry |-> [p \in {l[1] : l \in c[digest][2]} |->
                        LET l == CHOOSE l \in c[digest][2] : l[1] = p
                        IN [Sha1 |-> l[2], Size |-> l[3]]]]
    ELSE [err |-> TRUE, entry |-> EmptyEntry]

\* The responses.
Redirect(loc) == [code |-> 301, loc |-> loc, body |-> <<>>, links |-> <<>>]

NotFound == [code |-> 404, loc |-> <<>>, body |-> <<>>, links |-> <<>>]

BackendError == [code |-> 500, loc |-> <<>>, body |-> <<>>, links |-> <<>>]

Blob(bytes) == [code |-> 200, loc |-> <<>>, body |-> bytes, links |-> <<>>]

\* dirList(w, items): one <a> element for each item of the list it is
\* given; links[c] is the number of <a> elements whose href is c.
DirList(items) == [code |-> 200, loc |-> <<>>, body |-> <<>>, links |-> items]

\* The components of a path between its slashes, without the empty ones a
\* leading and a trailing slash make.
Names(p) == SelectSeq(Split(p), LAMBDA x : x # <<>>)

IsProperPrefix(a, b) == Len(a) < Len(b) /\ SubSeq(b, 1, Len(a)) = a

\* Whether the names lead to an inner entry of the tree.
IsInner(entry, names) == \E l \in DOMAIN entry : IsProperPrefix(names, l)

\* The listing of an inner entry: dir/ for the inner children, the plain
\* name for the files.
ChildNames(entry, names) ==
    {IF Len(l) = Len(names) + 1 THEN l[Len(names) + 1]
                                ELSE l[Len(names) + 1] \o <<Sep>> :
        l \in {x \in DOMAIN entry : IsProperPrefix(names, x)}}

\* EntryFileSystem.ServeHTTP for the path p within the tree.
EntryServeHTTP(c, entry, p) ==
    LET names == Names(p)
        slash == HasSuffix(p, <<Sep>>)
    IN IF ~HasPrefix(p, <<Sep>>) THEN NotFound
       ELSE IF names \in DOMAIN entry
       THEN IF slash THEN NotFound
            ELSE IF entry[names].Sha1 \in DOMAIN c
            THEN Blob(c[entry[names].Sha1])
            ELSE BackendError
       ELSE IF IsInner(entry, names)
       THEN IF slash
            THEN DirList([x \in ChildNames(entry, names) |-> 1])
            ELSE Redirect(p \o <<Sep>>)
       ELSE NotFound

\* r.URL.Path[1:].
Suburl(p) == SliceFrom(p, 1)

\* The keys at which the range over m.entries can stop: Go visits the keys
\* of a map in an unspecified order and the loop returns at the first key
\* that is a prefix of suburl.
Matches(m, p) ==
    IF Suburl(p) = <<>> THEN {}
    ELSE {k \in DOMAIN m : HasPrefix(Suburl(p), k)}

\* NodeResponse that hands the whole suburl, not the rest after the key, to
\* the entry file system.
NodeResponseWholePath(m, c, p, k) ==
    LET rest == SliceFrom(Suburl(p), Len(k)) IN
    IF rest = <<>> THEN Redirect(Base(p) \o <<Sep>>)
    ELSE LET e == LoadEntry(c, m[k].Entry) IN
         IF e.err THEN NotFound ELSE EntryServeHTTP(c, e.entry, Suburl(p))

\* The body of the range loop for the key k it stops at.
NodeResponse(m, c, p, k) ==
    LET rest == SliceFrom(Suburl(p), Len(k)) IN
    IF rest = <<>> THEN Redirect(Base(p) \o <<Sep>>)
    ELSE LET e == LoadEntry(c, m[k].Entry) IN
         IF e.err THEN NotFound ELSE EntryServeHTTP(c, e.entry, rest)

\* strings.SplitAfterN(s, "/", 2)[0]: s up to and with its first slash.
CutAfterSlash(s) ==
    IF \E i \in 1..Len(s) : s[i] = Sep
    THEN SubSeq(s, 1, CHOOSE i \in 1..Len(s) :
                          s[i] = Sep /\ \A j \in 1..(i - 1) : s[j] # Sep)
    ELSE s

\* The items the second loop appends: one for every key that has the
\* prefix, as the number of times each item is appended.
ListItems(m, suburl) ==
    LET K == {k \in DOMAIN m : HasPrefix(k, suburl)}
        item(k) == CutAfterSlash(SliceFrom(k, Len(suburl)))
    IN [x \in {item(k) : k \in K} |->
            Cardinality({k \in K : item(k) = x})]

\* ServeHTTP when no key is a prefix of suburl.
ListResponse(m, p) ==
    IF ~HasSuffix(p, <<Sep>>) THEN Redirect(Base(p) \o <<Sep>>)
    ELSE LET items == ListItems(m, Suburl(p)) IN
         IF DOMAIN items # {} THEN DirList(items) ELSE NotFound

\* What is appended to "/" + name in the requests of testNodesTableImpl,
\* with the directory dir1 and its listing added.
File3Path == <<"d", "/", "e", "/", "h">>
Dir2Path == <<"d", "/", "e">>

RestPaths ==
    {<<>>, <<Sep>>, <<Sep>> \o File1, <<Sep>> \o File2Path,
     <<Sep>> \o File3Path, <<Sep>> \o Dir2Path, <<Sep>> \o Dir2Path \o <<Sep>>,
     <<Sep, "d">>}

\* The paths requested: the root, /foo and /foo/, the months and tags with
\* and without the slash, and every key of the table with every rest.
RequestPaths(m) ==
    {<<Sep>>, <<Sep, "x">>, <<Sep, "x", Sep>>,
     <<Sep>> \o TagsName, <<Sep>> \o TagsName \o <<Sep>>}
    \cup {<<Sep>> \o MonthName(t) : t \in 0..MaxTime}
    \cup {<<Sep>> \o MonthName(t) \o <<Sep>> : t \in 0..MaxTime}
    \cup {<<Sep>> \o k \o r : k \in DOMAIN m, r \in RestPaths}

\* The request and the response as the test sees them; via is the key the
\* first loop stopped at ("" when it stopped at none).
Served(p, via, r) ==
    [path |-> p, via |-> via, code |-> r.code, loc |-> r.loc,
     body |-> r.body, links |-> r.links]

\* archiveData on the two tables, before the requests as in the test.
W_ArchiveData ==
    /\ Len(calls) < MaxArchives /\ resp = NoCall
    /\ \E name \in NodeNames, b \in {<<Content1, Content2>>, <<Content2, Content1>>} :
         LET a == ArchiveData(cas, entries, b[1], b[2], name, now) IN
         /\ cas' = a.cas
         /\ entries' = a.entries
         /\ calls' = Append(calls, CallRecord(entries, a.node, name, now))
    /\ UNCHANGED <<callVars, enumerated, fs, cacheFile, now, run, inputs,
                   interrupted, stats, aVars, chScan, closedScan, bVars,
                   chHashed, closedHashed, cVars, closedEntry, dVars, hist>>

\* request(t, nodes, path, ...): one GET through ServeHTTP. A request
\* changes nothing in the tables, so one request is followed from each
\* state of the tables.
W_Request ==
    /\ resp = NoCall
    /\ \E p \in RequestPaths(entries) :
         IF Matches(entries, p) # {}
         THEN \E k \in Matches(entries, p) :
                 resp' = Served(p, k, NodeResponse(entries, cas, p, k))
         ELSE resp' = Served(p, <<>>, ListResponse(entries, p))
    /\ UNCHANGED <<upd, cmd, nodeHist, persistVars, run, inputs, interrupted,
                   stats, aVars, chScan, closedScan, bVars, chHashed,
                   closedHashed, cVars, closedEntry, dVars, hist>>

(* ------------------------------------------------------------------ *)
(* The command line: Run(a, args) and archiveRun.Run                   *)
(* ------------------------------------------------------------------ *)
CmdHelp == <<"help">>
CmdArchive == <<"archive">>
CmdWeb == <<"web">>

\* The commands of the application.
CommandNames == {CmdHelp, CmdArchive, CmdWeb}

\* The words typed after the command name: a flag no command has, a name
\* that is no command, the commands and two paths.
Words == {<<"-", "foo">>, <<"non_existing_command">>, CmdHelp, CmdArchive,
          CmdWeb, ToArchive, PathPA}

IsFlag(w) == w[1] = "-"

\* What Run did: the exit code, whether it wrote to stdout and to stderr,
\* and whether the archive pipeline was started.
Ran(code, out, err, started) ==
    [code |-> code, out |-> out, err |-> err, started |-> started]

\* The errors archiveRun.main can return ("nil": none).
MainResults ==
    {"nil", "Was interrupted.", "Got errors!", "Was likely interrupted.",
     "Unexpected error."}

\* archiveRun.Run that does not count its arguments.
ArchiveRunNoCount(args, mainErr, mainOut) ==
    Ran(ExitCode(mainErr), mainOut, mainErr # "nil", TRUE)

\* archiveRun.Run(a, args): mainErr and mainOut are what c.main returns
\* and whether it wrote to stdout, when it is called.
ArchiveRun(args, mainErr, mainOut) ==
    IF Len(args) # 1 THEN Ran(1, FALSE, TRUE, FALSE)
    ELSE Ran(ExitCode(mainErr), mainOut, mainErr # "nil", TRUE)

\* help [command]: the usage on stdout; an unknown flag is reported on
\* stderr with exit code 0, an unknown command with exit code 2.
HelpRun(args) ==
    IF args = <<>> THEN Ran(0, TRUE, FALSE, FALSE)
    ELSE IF IsFlag(args[1]) THEN Ran(0, FALSE, TRUE, FALSE)
    ELSE IF args[1] \in CommandNames THEN Ran(0, TRUE, FALSE, FALSE)
    ELSE Ran(2, FALSE, TRUE, FALSE)

\* Run(a, args): the command named by args[1] runs on the other arguments;
\* an unknown command is reported on stderr with exit code 2.
Run(args, mainErr, mainOut) ==
    IF args[1] = CmdHelp THEN HelpRun(Tail(args))
    ELSE IF args[1] = CmdArchive THEN ArchiveRun(Tail(args), mainErr, mainOut)
    ELSE Ran(2, FALSE, TRUE, FALSE)

RECURSIVE SeqsUpTo(_, _)
SeqsUpTo(S, n) ==
    IF n = 0 THEN {<<>>}
    ELSE SeqsUpTo(S, n - 1) \cup
         {Append(q, x) : q \in {r \in SeqsUpTo(S, n - 1) : Len(r) = n - 1}, x \in S}

\* The command lines tried: help with at most one word, archive with any
\* number of paths, a name that is no command with any words.
CommandLines ==
    {<<CmdHelp>> \o r : r \in SeqsUpTo(Words, 1)}
    \cup {<<CmdArchive>> \o r : r \in SeqsUpTo({ToArchive, PathPA}, MaxArgs)}
    \cup {<<w>> \o r : w \in {<<"non_existing_command">>, <<"foo">>},
                       r \in SeqsUpTo(Words, MaxArgs)}

\* One command line is run.
X_Run ==
    /\ \E args \in CommandLines, mainErr \in MainResults, mainOut \in BOOLEAN :
         cmd' = [args |-> args] @@ Run(args, mainErr, mainOut)
    /\ UNCHANGED <<resp, upd, nodeHist, persistVars, run, inputs, interrupted,
                   stats, aVars, chScan, closedScan, bVars, chHashed,
                   closedHashed, cVars, closedEntry, dVars, hist>>

(* ------------------------------------------------------------------ *)
(* Specifications                                                      *)
(* ------------------------------------------------------------------ *)
\* One archive run on an empty store, with I/O failures and SIGINT.
Next ==
    \/ A_Stat \/ A_Interrupted \/ A_TreeItem \/ A_Send \/ A_Close
    \/ B_LoadCache \/ B_Interrupted \/ B_Item \/ B_Done \/ B_Send
    \/ B_CloseCache
    \/ C_Interrupted \/ C_Item \/ C_Archive \/ C_InputClosed
    \/ C_StoreEntry \/ C_Close
    \/ D_Interrupted \/ D_Closed \/ D_Item
    \/ Interrupt

Spec == Init /\ [][Next]_vars

\* archive run again and again on the same list, never interrupted; files
\* may be rewritten and time may pass between the runs.
RerunNext ==
    \/ A_Stat \/ A_TreeItem \/ A_Send \/ A_Close
    \/ B_LoadCache \/ B_Item \/ B_Done \/ B_Send \/ B_CloseCache
    \/ C_Item \/ C_Archive \/ C_InputClosed \/ C_StoreEntry \/ C_Close
    \/ D_Item
    \/ ModifyFile \/ NextRun

RerunSpec == Init /\ [][RerunNext]_vars

\* The nodes table of one list, called directly while time passes.
NodesInit == Init /\ inputs = ReadInputs(<<>>)

NodesNext == N_AddEntry \/ N_Enumerate \/ Tick

NodesSpec == NodesInit /\ [][NodesNext]_vars

\* The tables of the HTTP test: archiveData and requests while time passes.
WebNext == W_ArchiveData \/ W_Request \/ Tick

WebSpec == NodesInit /\ [][WebNext]_vars

\* Command lines run one after the other.
CmdNext == X_Run

CmdSpec == NodesInit /\ [][CmdNext]_vars

\* updateFile called on its own while time passes.
UpdNext == U_UpdateFile \/ Tick

UpdSpec == NodesInit /\ [][UpdNext]_vars

\* One archive run against a nodes table whose AddEntry can fail.
PersistNext == Next \/ D_ItemAddEntryFails

PersistSpec == Init /\ [][PersistNext]_vars

(* ------------------------------------------------------------------ *)
(* Properties                                                          *)
(* ------------------------------------------------------------------ *)
Returned == pcD = "done"

Succeeded == Returned /\ result = "nil"

\* The digests a node refers to: its entry file and the leaves of it.
NodeDigests(node) ==
    {node.Entry} \cup
    (IF IsManifestDigest(node.Entry)
     THEN {leaf[2] : leaf \in LeavesOf(node.Entry)} ELSE {})

\* C1: after a run that returns success and registers a node, the entry
\* digest of the node and every leaf digest of its manifest are in the CAS.
C1_DigestsInCas ==
    Succeeded =>
        \A k \in DOMAIN entries : NodeDigests(entries[k]) \subseteq DOMAIN cas

\* C2: when the error counter is not zero at the end of the run, archive
\* returns failure (exit code 1), also when the manifest was delivered.
C2_ErrorsFailTheRun ==
    (Returned /\ hist.errorsAtReturn # 0) => ExitCode(result) = 1

\* C3: when the interrupted signal fired before the driver received the
\* manifest digest, the driver registers no node for the run.
C3_NoNodeAfterInterrupt ==
    hist.nodeAdds > 0 => ~hist.intrAtAdd

\* C4: when a stage or the driver reacted to the interrupted signal, the run
\* returns the "Was interrupted." error and the error counter is not zero
\* at the return of the driver.
C4_InterruptReported ==
    (Returned /\ hist.reactedAtReturn # {}) =>
        (result = "Was interrupted." /\ hist.errorsAtReturn # 0)

\* C5: after the interrupted signal fired no stage is blocked for ever on a
\* send, that is on a send to a consumer that has already returned.
C5_NoStageStuckOnSend ==
    interrupted =>
        /\ ~(pcC = "send" /\ pcD = "done")
        /\ ~(pcB = "send" /\ Len(chHashed) >= HashedCap /\ pcC = "done")
        /\ ~(pcA = "send" /\ Len(chScan) >= ScanCap
                /\ pcB \in {"closeCache", "done"})

\* The manifest digests among the values the driver received.
DigestsReceived ==
    {i \in 1..Len(hist.received) : hist.received[i] # EmptyDigest}

\* Stage C returned without taking its InterruptedChannel branch.
StageCRanToEnd == pcC = "done" /\ "C" \notin hist.reacted

\* The parts of C6 that do not depend on what is sent: at most one value is
\* sent; a digest is sent only when archiveItem has returned for every
\* item received, the input is drained and the manifest is in the CAS; the
\* driver adds at most one node, and only for a digest it received.
EmissionOrder ==
    /\ Len(hist.received) <= 1
    /\ \A i \in DigestsReceived :
           /\ hist.received[i] \in DOMAIN cas
           /\ Len(hist.archLog) = hist.recvC
           /\ chHashed = <<>> /\ closedHashed
           /\ pcC \in {"close", "done"}
    /\ hist.nodeAdds <= 1
    /\ hist.nodeAdds = 1 =>
           /\ DigestsReceived # {}
           /\ calls[Len(calls)].node.Entry = hist.received[1]

\* C6 as stated: stage C sends the manifest digest at most once, exactly
\* once when it does not react to cancellation, after every AddEntry and
\* after the manifest was stored; the node is added at most once, after.
C6_DigestExactlyOnce ==
    /\ EmissionOrder
    /\ StageCRanToEnd => Cardinality(DigestsReceived) = 1

\* C6 amended: a stage C that returns without reacting to cancellation has
\* sent exactly one value, the digest of the stored manifest or, when the
\* manifest could not be stored, the empty sentinel (with an error counted
\* and no node added); the order of C6 holds as stated.
C6_OneValueSent ==
    /\ EmissionOrder
    /\ StageCRanToEnd =>
           /\ Len(hist.received) = 1
           /\ hist.received[1] = EmptyDigest =>
                  (stats.errors > 0 /\ hist.nodeAdds = 0)

C6_Witness ==
    /\ Succeeded /\ StageCRanToEnd
    /\ hist.nodeAdds = 1 /\ hist.recvC >= 2

\* C7: for a directory input every regular file of its tree is sent by
\* stage A exactly once (and lands in the manifest) before the next input.
TimesEmitted(f) ==
    Cardinality({i \in 1..Len(hist.emittedA) : hist.emittedA[i] = f})

C7_TreeDrained ==
    (pcA = "done" /\ "A" \notin hist.reacted) =>
        \A i \in 1..Len(inputs) :
            inputs[i] \in Dirs =>
                \A f \in TreeFiles(inputs[i]) : TimesEmitted(f) = 1

\* Two archiveItem calls on files of identical content, neither hit by an
\* I/O failure, the first being the first call for that content.
DedupPair(i, j) ==
    LET L == hist.archLog IN
    /\ i < j
    /\ fs[L[i].path].content = fs[L[j].path].content
    /\ ~L[i].fault /\ ~L[j].fault
    /\ \A k \in 1..(i - 1) : fs[L[k].path].content # fs[L[i].path].content

\* C8: of two files with identical content the first is counted as archived
\* and the later one as skipped (already-exists), neither as an error, and
\* the blob is written to the CAS once.
C8_DuplicateSkipped ==
    LET L == hist.archLog IN
    \A i, j \in 1..Len(L) :
        DedupPair(i, j) =>
            /\ L[i].res = "archived"
            /\ L[j].res = "skipped"
            /\ L[i].sha1 = L[j].sha1 /\ L[i].sha1 \in DOMAIN cas
            /\ Cardinality({k \in 1..Len(L) : L[k].sha1 = L[i].sha1
                                               /\ L[k].res = "archived"}) = 1

C8_Witness ==
    \E i, j \in 1..Len(hist.archLog) :
        DedupPair(i, j) /\ hist.archLog[j].res = "skipped" /\ Returned

\* The time-bucketed relpaths of the nodes table.
TimeBucketed(paths) == {k \in paths : ~IsTagPath(k)}

\* A run over inputs unchanged since a previous run that succeeded without
\* errors and persisted its cache, itself without failure, has returned.
CleanRerun ==
    /\ run >= 2 /\ hist.prevOk
    /\ Succeeded /\ stats.errors = 0 /\ ~hist.loadFailed

\* C9: such a run hashes no file, adds no blob to the CAS (every file and
\* the manifest are already there) and registers exactly one new node.
C9_RerunIdempotent ==
    CleanRerun =>
        /\ stats.nbHashed = 0 /\ stats.nbNotHashed = stats.found
        /\ DOMAIN cas = hist.casAtStart
        /\ stats.nbArchived = 0 /\ stats.nbNotArchived = stats.found + 1
        /\ Cardinality(TimeBucketed(DOMAIN entries)) =
               Cardinality(TimeBucketed(hist.nodesAtStart)) + 1

C9_Witness == CleanRerun /\ stats.found >= 2 /\ stats.nbNotHashed >= 2

\* The basenames of the first n AddEntry calls.
NamesCalled(n) == {calls[i].name : i \in 1..n}

\* C10: every AddEntry call claims a time-bucketed relpath that was free
\* and no later call overwrites it; calls of the same second and basename
\* differ only in the (<n>) suffix; Enumerate yields nothing on the empty
\* table and then one entry per call plus one tag per distinct basename.
C10_NamesNeverCollide ==
    /\ \A i \in 1..Len(calls) :
           /\ calls[i].path \notin calls[i].before
           /\ ~IsTagPath(calls[i].path)
           /\ calls[i].path \in DOMAIN entries
           /\ entries[calls[i].path] = calls[i].node
    /\ \A i, j \in 1..Len(calls) :
           i < j =>
             /\ calls[i].path # calls[j].path
             /\ (calls[i].t = calls[j].t /\ calls[i].name = calls[j].name) =>
                   \E m, n \in 0..Len(calls) :
                      /\ m # n
                      /\ calls[i].path = NodePath(calls[i].t, calls[i].name, m)
                      /\ calls[j].path = NodePath(calls[i].t, calls[i].name, n)
    /\ Cardinality(Enumerate(entries)) =
           Len(calls) + Cardinality(NamesCalled(Len(calls)))
    /\ Cardinality(TimeBucketed(Enumerate(entries))) = Len(calls)
    /\ Cardinality(enumerated.paths) =
           enumerated.after + Cardinality(NamesCalled(enumerated.after))

C10_Witness ==
    /\ Len(calls) >= 2
    /\ calls[1].t = calls[2].t /\ calls[1].name = calls[2].name
    /\ calls[2].path = NodePath(calls[1].t, calls[1].name, 1)
    /\ enumerated.after = 2

\* The last AddEntry call made with a basename (0 when there is none).
LastCall(name) ==
    LET S == {i \in 1..Len(calls) : calls[i].name = name}
    IN IF S = {} THEN 0 ELSE CHOOSE i \in S : \A j \in S : j <= i

\* C11: tags/<basename> holds the node of the most recent AddEntry call with
\* that basename, which is also the node of the time-bucketed entry that
\* call claimed; there is a tag for the basenames called and for no other,
\* so a call leaves the tags of the other basenames as they were.
C11_TagIsLatest ==
    /\ \A name \in NodeNames :
           IF LastCall(name) = 0
           THEN TagPath(name) \notin DOMAIN entries
           ELSE /\ TagPath(name) \in DOMAIN entries
                /\ entries[TagPath(name)] = calls[LastCall(name)].node
                /\ entries[TagPath(name)] = entries[calls[LastCall(name)].path]
    /\ {k \in DOMAIN entries : IsTagPath(k)} =
           {TagPath(name) : name \in NamesCalled(Len(calls))}

C11_Witness ==
    /\ Len(calls) = 3
    /\ calls[1].name = calls[3].name /\ calls[2].name # calls[1].name
    /\ calls[1].node # calls[3].node
    /\ entries[TagPath(calls[1].name)] = calls[3].node
    /\ entries[TagPath(calls[2].name)] = calls[2].node

\* A request was served in this step: resp' is the response, and the tables
\* are the ones it was served from.
Requested == resp' # resp

\* The status, the Location, the body and the links of a response.
Answer(r) == [code |-> r.code, loc |-> r.loc, body |-> r.body, links |-> r.links]

\* C12: a GET of /k + rest, k a registered relpath and rest one of the
\* non-empty rests of the test, is answered from the manifest of the node
\* stored under k, whatever else is in the table.
C12_ServedFromItsNode ==
    [][Requested =>
        \A k \in DOMAIN entries, rest \in RestPaths \ {<<>>} :
            resp'.path = <<Sep>> \o k \o rest =>
                Answer(resp') =
                    EntryServeHTTP(cas, LoadEntry(cas, entries[k].Entry).entry,
                                   rest)]_vars

\* The distinct children of the "directory" suburl: the relpaths with that
\* prefix, cut after their next slash.
Children(m, suburl) ==
    {CutAfterSlash(SliceFrom(k, Len(suburl))) :
        k \in {x \in DOMAIN m : HasPrefix(x, suburl)}}

\* C13: a GET of a path ending in '/' that is under no node relpath returns
\* 200 and a listing with exactly one <a> for each distinct child, or 404
\* when no relpath has the prefix.
C13_OneLinkPerChild ==
    [][(Requested /\ resp'.via = <<>> /\ HasSuffix(resp'.path, <<Sep>>)) =>
        LET kids == Children(entries, Suburl(resp'.path)) IN
        IF kids = {} THEN resp'.code = 404
        ELSE /\ resp'.code = 200
             /\ DOMAIN resp'.links = kids
             /\ \A x \in kids : resp'.links[x] = 1]_vars

\* C14: a GET of exactly a registered relpath returns 301 to <base>/, and a
\* GET of a path that has no relpath as a prefix and does not end in '/'
\* returns 301 to <basename(p)>/; neither serves content.
C14_Canonicalized ==
    [][Requested =>
        LET p == resp'.path IN
        ((Suburl(p) \in DOMAIN entries)
            \/ (Matches(entries, p) = {} /\ ~HasSuffix(p, <<Sep>>))) =>
                /\ resp'.code = 301
                /\ resp'.loc = Base(p) \o <<Sep>>
                /\ resp'.body = <<>> /\ resp'.links = <<>>]_vars

\* The leaves (names, digest) written in the manifest a node refers to.
NodeLeaves(node) == {<<l[1], l[2]>> : l \in LeavesOf(node.Entry)}

\* C15: within the tree of the node the request was dispatched to, a path
\* that ends at a file gives 200 and the bytes of its blob, a path that
\* names an inner entry gives 301 to p/ without the slash and 200 with a
\* listing with it, and a path with a missing component gives 404.
C15_EntryFileSystem ==
    [][(Requested /\ resp'.via # <<>>
            /\ SliceFrom(Suburl(resp'.path), Len(resp'.via)) # <<>>) =>
        LET p == SliceFrom(Suburl(resp'.path), Len(resp'.via))
            names == Names(p)
            leaves == NodeLeaves(entries[resp'.via])
            slash == HasSuffix(p, <<Sep>>)
            below == {l \in leaves : IsProperPrefix(names, l[1])}
        IN /\ \A l \in leaves :
                 (l[1] = names /\ ~slash) =>
                     /\ resp'.code = 200
                     /\ resp'.body = cas[l[2]] /\ Sha1(resp'.body) = l[2]
           /\ (below # {} /\ ~slash) =>
                 (resp'.code = 301 /\ resp'.loc = p \o <<Sep>>)
           /\ (below # {} /\ slash) =>
                 /\ resp'.code = 200
                 /\ DOMAIN resp'.links # {} /\ resp'.body = <<>>
           /\ (below = {} /\ \A l \in leaves : l[1] # names) =>
                 resp'.code = 404]_vars

\* file2 of the second node of the table was served.
C15_Witness ==
    /\ resp # NoCall /\ Len(calls) = 2
    /\ resp.via = calls[2].path
    /\ resp.path = <<Sep>> \o resp.via \o <<Sep>> \o File2Path
    /\ resp.code = 200 /\ resp.body \in {Content1, Content2}

\* C16: help returns 0 and writes to stdout only; help <unknown command>
\* and an unknown command return 2 and write to stderr only; help with an
\* unknown flag returns 0 and writes to stderr only; archive with a number
\* of arguments other than one returns 1, writes to stderr and starts no
\* pipeline.
C16_ExitCodes ==
    cmd # NoCall =>
        LET a == cmd.args
            stdoutOnly == cmd.out /\ ~cmd.err
            stderrOnly == cmd.err /\ ~cmd.out
        IN /\ a = <<CmdHelp>> => (cmd.code = 0 /\ stdoutOnly)
           /\ (Len(a) = 2 /\ a[1] = CmdHelp /\ ~IsFlag(a[2])
                 /\ a[2] \notin CommandNames) => (cmd.code = 2 /\ stderrOnly)
           /\ a[1] \notin CommandNames => (cmd.code = 2 /\ stderrOnly)
           /\ (Len(a) = 2 /\ a[1] = CmdHelp /\ IsFlag(a[2])) =>
                 (cmd.code = 0 /\ stderrOnly)
           /\ (a[1] = CmdArchive /\ Len(a) # 2) =>
                 (cmd.code = 1 /\ cmd.err /\ ~cmd.started)
           /\ cmd.started => (a[1] = CmdArchive /\ Len(a) = 2)

C16_Witness ==
    /\ cmd # NoCall /\ cmd.args = <<CmdArchive, ToArchive, PathPA>>
    /\ cmd.code = 1 /\ cmd.err /\ ~cmd.started

\* C17: after a run that returns success the stored manifest has a leaf
\* named basename(<toArchive>) whose digest is the digest of the list file
\* itself, and that blob is in the CAS.
C17_ListFileArchived ==
    Succeeded =>
        /\ Len(hist.received) = 1 /\ IsManifestDigest(hist.received[1])
        /\ \E l \in LeavesOf(hist.received[1]) :
               /\ l[1] = Split(Base(ToArchive))
               /\ l[2] = Sha1(fs[ToArchive].content)
               /\ l[2] \in DOMAIN cas

\* The inputs os.Stat fails on, and the directory inputs whose tree walk
\* reports an error.
StatFailures == Cardinality({i \in 1..Len(inputs) : inputs[i] \notin Files \cup Dirs})

TreeErrors ==
    Cardinality({i \in 1..Len(inputs) :
                    /\ inputs[i] \in Dirs /\ Walk(inputs[i]) # <<>>
                    /\ Walk(inputs[i])[1].Error})

\* The items stage A sent that did not reach stage C.
HashFailures == Len(hist.emittedA) - hist.recvC

\* The archiveItem calls that counted an error, and the ones an open or
\* a cas.AddEntry failed in.
ArchFailures ==
    Cardinality({k \in 1..Len(hist.archLog) : hist.archLog[k].res = "error"})

ArchFaults ==
    Cardinality({k \in 1..Len(hist.archLog) : hist.archLog[k].fault})

\* Stage C is past its loop in a run no signal was sent to.
UninterruptedAtEnd == ~interrupted /\ pcC \in {"send", "close", "done"}

\* The value stage C sends or has sent.
Emitted == IF pcC = "send" THEN pendC ELSE hist.received[1]

SentinelCount == IF Emitted = EmptyDigest THEN 1 ELSE 0

\* C18: in a run without signal every failure of one item (stat, tree
\* walk, hashing, open, cas.AddEntry) adds exactly one to the error counter
\* and stops nothing: every file input is sent by stage A, only the items
\* whose hashing failed are missing at stage C, archiveItem is called for
\* every item received, and unless storing the manifest itself fails stage
\* C stores the manifest of all the items it received and emits its digest.
C18_ItemErrorsCounted ==
    UninterruptedAtEnd =>
        /\ stats.errors = StatFailures + TreeErrors + HashFailures
                            + ArchFailures + SentinelCount
        /\ hist.faults = (IF hist.loadFailed THEN 1 ELSE 0) + HashFailures
                            + ArchFaults + SentinelCount
        /\ ArchFailures = ArchFaults
        /\ \A i \in 1..Len(inputs) :
               inputs[i] \in Files => TimesEmitted(inputs[i]) = 1
        /\ Len(hist.archLog) = hist.recvC
        /\ {entryRoot[p].Sha1 : p \in DOMAIN entryRoot} \subseteq
               {hist.archLog[k].sha1 : k \in 1..Len(hist.archLog)}
        /\ hist.archLog # <<>> =>
               entryRoot[Split(Base(hist.archLog[Len(hist.archLog)].path))].Sha1
                   = hist.archLog[Len(hist.archLog)].sha1
        /\ pcC # "send" => Len(hist.received) = 1
        /\ Emitted # EmptyDigest =>
               /\ Emitted = Sha1(MarshalEntry(entryRoot))
               /\ Emitted \in DOMAIN cas

\* One item failed, another went through and the manifest was delivered.
C18_Witness ==
    /\ UninterruptedAtEnd /\ Returned
    /\ HashFailures + ArchFailures = 1 /\ StatFailures = 1
    /\ \E k \in 1..Len(hist.archLog) : hist.archLog[k].res = "archived"
    /\ Emitted # EmptyDigest /\ hist.nodeAdds = 1

\* Stage C is sending, or the driver has received, the empty sentinel.
SentinelEmitted ==
    \/ pcC = "send" /\ pendC = EmptyDigest
    \/ hist.received # <<>> /\ hist.received[1] = EmptyDigest

\* C19: when marshalling or storing the manifest fails, stage C adds one to
\* the error counter and emits the empty sentinel (and only then); the
\* driver then returns an error, "Got errors!" when it received the
\* sentinel, and registers no node.
C19_SentinelFailsTheRun ==
    /\ [][(pcC = "marshal" /\ pcC' = "send") =>
            IF hist'.faults > hist.faults
            THEN pendC' = EmptyDigest /\ stats'.errors = stats.errors + 1
            ELSE pendC' # EmptyDigest /\ stats'.errors = stats.errors]_vars
    /\ [](SentinelEmitted =>
            /\ stats.errors > 0
            /\ hist.nodeAdds = 0 /\ DOMAIN entries = {}
            /\ Returned =>
                  /\ ExitCode(result) = 1
                  /\ hist.received # <<>> => result = "Got errors!")

C19_Witness ==
    /\ Returned /\ hist.received = <<EmptyDigest>>
    /\ result = "Got errors!" /\ hist.nodeAdds = 0 /\ hist.recvC >= 1

\* C20: when the size and the timestamp of the record equal the size and
\* the mtime of the file, updateFile returns "unchanged", does not read the
\* file and changes last_tested only; otherwise, when hashing succeeds, it
\* sets sha1, size, timestamp and last_tested together and returns
\* "re-hashed"; when hashing fails it returns the error and leaves every
\* field of the record as it was.
C20_UpdateFileFrame ==
    upd # NoCall =>
        LET r == upd.rec
            i == upd.item
            o == upd.out
        IN IF r.Size = i.size /\ r.Timestamp = i.mtime
           THEN /\ ~o.hashed /\ ~o.err /\ ~o.read
                /\ o.rec.Sha1 = r.Sha1 /\ o.rec.Size = r.Size
                /\ o.rec.Timestamp = r.Timestamp
                /\ o.rec.LastTested = upd.t
           ELSE IF upd.readOk
           THEN /\ o.hashed /\ ~o.err /\ o.read
                /\ o.rec = [Sha1 |-> Sha1(upd.bytes), Size |-> i.size,
                            Timestamp |-> i.mtime, LastTested |-> upd.t]
           ELSE o.err /\ ~o.hashed /\ o.rec = r

\* A file of the recorded size and a newer mtime was hashed again.
C20_Witness ==
    /\ upd # NoCall
    /\ upd.rec.Size = upd.item.size /\ upd.rec.Timestamp < upd.item.mtime
    /\ upd.out.hashed /\ upd.out.rec.Sha1 = Sha1(Content3)
    /\ upd.out.rec.LastTested = 1

\* The items stage B has taken from items_to_scan, as positions in the
\* sequence stage A sent, and the ones among them it did not drop.
ConsumedB == Len(hist.emittedA) - Len(chScan)

KeptB == {i \in 1..ConsumedB : i \notin hist.droppedB}

\* The paths of the kept items in the order stage A sent them.
KeptSeq ==
    [k \in 1..Cardinality(KeptB) |->
        hist.emittedA[CHOOSE i \in KeptB :
                          Cardinality({j \in KeptB : j < i}) = k - 1]]

PathsOf(q) == [k \in 1..Len(q) |-> q[k].fullPath]

\* The paths of the items stage C has received, in the order it did.
ReceivedC ==
    [k \in 1..Len(hist.archLog) |-> hist.archLog[k].path]
        \o (IF pcC = "archive" THEN <<curC.fullPath>> ELSE <<>>)

\* C21: in every interleaving the items that left stage B are, in order,
\* the items stage A sent without the ones whose hashing failed: first the
\* ones stage C received, then the ones in items_hashed, then the one stage
\* B is sending; items_to_scan holds the rest of what stage A sent. In a
\* run without signal stage C has received all of them when its loop ends.
C21_OrderPreserved ==
    /\ PathsOf(chScan) =
           SubSeq(hist.emittedA, ConsumedB + 1, Len(hist.emittedA))
    /\ hist.droppedB \subseteq 1..ConsumedB
    /\ KeptSeq = ReceivedC \o PathsOf(chHashed)
                   \o (IF pcB = "send" THEN <<pendB.fullPath>> ELSE <<>>)
    /\ Len(ReceivedC) = hist.recvC
    /\ UninterruptedAtEnd =>
           (ConsumedB = Len(hist.emittedA) /\ ReceivedC = KeptSeq)

\* Three items were sent, the second was dropped, the others arrived.
C21_Witness ==
    /\ UninterruptedAtEnd /\ Len(hist.emittedA) = 3
    /\ hist.droppedB = {2} /\ Len(ReceivedC) = 2
    /\ ReceivedC = <<hist.emittedA[1], hist.emittedA[3]>>

\* C22: archive returns success only when the node was registered: after a
\* successful run the nodes table holds a node for the digest received.
C22_SuccessMeansRegistered ==
    Succeeded =>
        /\ hist.received # <<>>
        /\ \E k \in DOMAIN entries : entries[k].Entry = hist.received[1]


\* The distinct files stage C has received.
FilesReceivedC == {ReceivedC[k] : k \in 1..Len(ReceivedC)}

\* C23: distinct files never collapse in the manifest: after an uninterrupted
\* run without errors the manifest has one leaf per distinct file stage C
\* received, and every file received still has a leaf with its digest.
C23_NoCollapse ==
    (UninterruptedAtEnd /\ stats.errors = 0) =>
        /\ Cardinality(DOMAIN entryRoot) = Cardinality(FilesReceivedC)
        /\ \A k \in 1..Len(hist.archLog) :
               \E p \in DOMAIN entryRoot :
                   entryRoot[p].Sha1 = hist.archLog[k].sha1


\* The buckets of stage B and of stage C: what each stage has counted, with
\* its failures (a hashing failure; an open, cas.AddEntry, marshal or
\* AddBytes failure).
CountedB == stats.nbHashed + stats.nbNotHashed + Cardinality(hist.droppedB)

StoreFailures == IF pcC \in {"send", "close", "done"} THEN
                     (IF hist.reacted \cap {"C"} # {} THEN 0 ELSE SentinelCount)
                 ELSE 0

CountedC == stats.nbArchived + stats.nbNotArchived + ArchFaults + StoreFailures

\* C24: counter conservation: when the driver returns in a run without
\* signal, found = nbHashed + nbNotHashed + hashing failures and
\* nbArchived + nbNotArchived + stage C failures = nbHashed + nbNotHashed + 1;
\* in every state a stage has counted at most what its upstream has.
C24_CountersConserved ==
    /\ CountedB <= stats.found
    /\ CountedC <= stats.nbHashed + stats.nbNotHashed + 1
    /\ (Returned /\ ~interrupted) =>
           /\ stats.found = CountedB
           /\ CountedC = stats.nbHashed + stats.nbNotHashed + 1

\* A run of three files: one failed to hash, one was already in the CAS,
\* one was added, and the manifest was stored.
C24_Witness ==
    /\ Returned /\ ~interrupted
    /\ stats.found = 3 /\ Cardinality(hist.droppedB) = 1
    /\ stats.nbHashed + stats.nbNotHashed = 2
    /\ stats.nbNotArchived >= 1 /\ stats.nbArchived >= 1
    /\ stats.nbArchived + stats.nbNotArchived = 3


\* C25: channel safety: a stage has closed its output channel exactly once
\* when it has returned and never before, no channel is closed twice,
\* nothing is sent on a closed channel, and the hash cache is closed exactly
\* once, when stage B returns.
C25_ChannelSafety ==
    /\ [](/\ hist.closes.scan = (IF pcA = "done" THEN 1 ELSE 0)
          /\ hist.closes.hashed = (IF pcB \in {"closeCache", "done"} THEN 1 ELSE 0)
          /\ hist.closes.entry = (IF pcC = "done" THEN 1 ELSE 0)
          /\ hist.closes.cache = (IF pcB = "done" THEN 1 ELSE 0)
          /\ closedScan <=> hist.closes.scan = 1
          /\ closedHashed <=> hist.closes.hashed = 1
          /\ closedEntry <=> hist.closes.entry = 1)
    /\ [][/\ Len(chScan') > Len(chScan) => ~closedScan /\ ~closedScan'
          /\ Len(chHashed') > Len(chHashed) => ~closedHashed /\ ~closedHashed'
          /\ hist'.received # hist.received => ~closedEntry /\ ~closedEntry'
          /\ hist'.closes.scan > hist.closes.scan => pcA # "done" /\ pcA' = "done"
          /\ hist'.closes.hashed > hist.closes.hashed =>
                 pcB = "select" /\ pcB' = "closeCache"
          /\ hist'.closes.entry > hist.closes.entry => pcC # "done" /\ pcC' = "done"
          /\ hist'.closes.cache # hist.closes.cache =>
                 pcB = "closeCache" /\ pcB' = "done" /\ cacheFile' = cache
          /\ cacheFile' # cacheFile =>
                 hist'.closes.cache = hist.closes.cache + 1]_vars

\* After a signal every stage has returned: stage A at the end of its
\* inputs, stage B and stage C through their interrupt branch with items
\* already through; each channel and the cache were closed once.
C25_Witness ==
    /\ interrupted /\ hist.reacted = {"B", "C"}
    /\ pcA = "done" /\ pcB = "done" /\ pcC = "done" /\ pcD = "done"
    /\ hist.closes = [scan |-> 1, hashed |-> 1, entry |-> 1, cache |-> 1]
    /\ hist.emittedA # <<>> /\ hist.recvC >= 1

====
